---- MODULE Spec2Model ----
(***************************************************************************)
(* Model of mlflow_export_import/model/export_model.py: ModelExporter.     *)
(* A Python str is modelled as a sequence of one-character strings, so     *)
(* that lower(), split(","), replace() and os.path.join() are computed,    *)
(* not assumed.                                                            *)
(***************************************************************************)
EXTENDS Integers, Sequences, FiniteSets, TLC

(* ------------------------------ bounds -------------------------------- *)
MaxVersions == 2
MaxFilter == 2
MaxCalls == 2

(* --------------------------- string helpers --------------------------- *)
Upper == <<"A","B","C","D","E","F","G","H","I","J","K","L","M",
           "N","O","P","Q","R","S","T","U","V","W","X","Y","Z">>
Lower == <<"a","b","c","d","e","f","g","h","i","j","k","l","m",
           "n","o","p","q","r","s","t","u","v","w","x","y","z">>

LowerChar(c) ==
    IF \E k \in 1..26 : Upper[k] = c
    THEN Lower[CHOOSE k \in 1..26 : Upper[k] = c]
    ELSE c

\* str.lower()
lower(s) == [k \in 1..Len(s) |-> LowerChar(s[k])]

\* str.startswith(p) at offset k (1-based)
MatchAt(s, p, k) ==
    /\ k + Len(p) - 1 <= Len(s)
    /\ \A j \in 1..Len(p) : s[k + j - 1] = p[j]

RECURSIVE SplitFrom(_, _, _)
\* pieces of s from position k on, cur being the piece under construction
SplitFrom(s, k, cur) ==
    IF k > Len(s) THEN <<cur>>
    ELSE IF s[k] = "," THEN <<cur>> \o SplitFrom(s, k + 1, <<>>)
    ELSE SplitFrom(s, k + 1, Append(cur, s[k]))

\* str.split(",")
split(s) == SplitFrom(s, 1, <<>>)

RECURSIVE ReplaceFrom(_, _, _, _)
ReplaceFrom(s, old, new, k) ==
    IF k > Len(s) THEN <<>>
    ELSE IF MatchAt(s, old, k) THEN new \o ReplaceFrom(s, old, new, k + Len(old))
    ELSE <<s[k]>> \o ReplaceFrom(s, old, new, k + 1)

\* str.replace(old, new): every non-overlapping occurrence, left to right
replace(s, old, new) == ReplaceFrom(s, old, new, 1)

\* os.path.join(a, b) (posix)
join(a, b) ==
    IF Len(b) > 0 /\ b[1] = "/" THEN b
    ELSE IF Len(a) = 0 \/ a[Len(a)] = "/" THEN a \o b
    ELSE a \o <<"/">> \o b

DbfsScheme == <<"d","b","f","s",":">>
DbfsMount == <<"/","d","b","f","s">>
ModelJson == <<"m","o","d","e","l",".","j","s","o","n">>

\* opath of lines 42-43
RunPath(dir, run_id) == replace(join(dir, run_id), DbfsScheme, DbfsMount)

\* path of line 64
ModelPath(dir) == join(dir, ModelJson)

(* ------------------------------ stages -------------------------------- *)
sNone == <<"n","o","n","e">>
sStaging == <<"s","t","a","g","i","n","g">>
sProduction == <<"p","r","o","d","u","c","t","i","o","n">>
sArchived == <<"a","r","c","h","i","v","e","d">>

\* keys of mlflow.entities.model_registry.model_version_stages._CANONICAL_MAPPING
CANONICAL_MAPPING == {sNone, sStaging, sProduction, sArchived}

InSeq(x, s) == \E k \in 1..Len(s) : s[k] = x

\* The constructor argument `stages`: None, a str, or a list of str
None == [t |-> "None"]
StrArg(s) == [t |-> "str", v |-> s]
ListArg(l) == [t |-> "list", v |-> l]

\* line 74: [ stage.lower() for stage in stages ]
LowerAll(l) == [k \in 1..Len(l) |-> lower(l[k])]

\* (mutant) unrecognized stages are removed from the filter
normalize_stages_strict(arg) ==
    IF arg.t = "None" THEN <<>>
    ELSE SelectSeq(LowerAll(IF arg.t = "str" THEN split(arg.v) ELSE arg.v),
                   LAMBDA x : x \in CANONICAL_MAPPING)

\* lines 70-74 and 78: the value normalize_stages returns
normalize_stages(arg) ==
    IF arg.t = "None" THEN <<>>
    ELSE IF arg.t = "str" THEN LowerAll(split(arg.v))
    ELSE LowerAll(arg.v)

\* lines 75-77: the stages a warning is printed for, in order
StageWarnings(st) == SelectSeq(st, LAMBDA x : x \notin CANONICAL_MAPPING)

\* (mutant) the stage is compared without lower-casing it
SkippedCaseSensitive(st, vr) == Len(st) > 0 /\ ~ InSeq(vr.current_stage, st)

\* line 39: the version is skipped
Skipped(st, vr) == Len(st) > 0 /\ ~ InSeq(lower(vr.current_stage), st)


(* ---------------------------- exceptions ------------------------------ *)
\* What a collaborator call can do: return, or raise one of these.
\* cls is the exception's class, missing_run whether str(e) contains
\* "RESOURCE_DOES_NOT_EXIST: Run".
RunNotFound == [cls |-> "RestException", missing_run |-> TRUE]
RestOther == [cls |-> "RestException", missing_run |-> FALSE]
OtherError == [cls |-> "Exception", missing_run |-> FALSE]
Excs == {RunNotFound, RestOther, OtherError}

\* (mutant) the handler of line 25 narrowed to RestException
IsExceptionNarrow(e) == e.cls = "RestException"

\* line 25: except Exception
IsException(e) == e.cls \in {"Exception", "RestException"}

\* (mutant) the handler of line 57 lets a missing run through
IsRestExceptionOther(e) == e.cls = "RestException" /\ ~ e.missing_run

\* line 57: except mlflow.exceptions.RestException
IsRestException(e) == e.cls = "RestException"

\* line 58: "RESOURCE_DOES_NOT_EXIST: Run" in str(e)
MentionsMissingRun(e) == e.missing_run

(* --------------------------- source state ----------------------------- *)
cA == <<"a">>
cB == <<"b">>
cC == <<"c">>
RunIds == <<cA, cB, cC>>
VersionStages == { <<"P","r","o","d","u","c","t","i","o","n">>,
                   <<"A","r","c","h","i","v","e","d">> }

Steps == {"export_run", "get_run", "get_experiment"}
NoFault == [step |-> "none", exc |-> OtherError]
Faults == {NoFault} \cup [step : Steps, exc : Excs]

\* a model version as search_model_versions returns it
ModelVersion(k, st) == [version |-> k, current_stage |-> st, run_id |-> RunIds[k]]

VersionLists(n) ==
    UNION { { [k \in 1..m |-> ModelVersion(k, f[k])] : f \in [1..m -> VersionStages] }
            : m \in 0..n }

\* the registered models of the registry; any other name is unknown
mM == <<"m">>
mU == <<"u">>
ModelNames == {mM, mU}
Registered == {mM}

\* latest_versions of the registry's raw descriptor: per stage, the newest version
RawLatestVersions(vs) ==
    SelectSeq(vs, LAMBDA v :
        ~ \E j \in 1..Len(vs) : j > v.version /\ vs[j].current_stage = v.current_stage)

ArtifactUri(run_id) == <<"u", ":">> \o run_id
ExperimentName(run_id) == <<"e", ":">> \o run_id

dLocal == <<"/","o">>
dDbfs == <<"d","b","f","s",":","/","o">>
dInner == <<"/","x","/","d","b","f","s",":","y">>
OutputDirs == {dLocal, dDbfs, dInner}

(* ------------------------------- state -------------------------------- *)
VARIABLES
    stagesArg,          \* the `stages` argument of __init__
    stages,             \* self.stages
    warnings,           \* the stages normalize_stages printed a warning for
    export_run,         \* self.export_run
    versions,           \* registry: the versions of model "m", in source order
    faults,             \* per version, the step of its run export/lookup that fails
    remaining,          \* export_model calls the caller has still to make
    pc,                 \* position in export_model / _export_model
    output_dir, model_name,
    fs,                 \* storage handle of line 30
    model,              \* model["registered_model"]
    manifest, exported_versions,
    idx,                \* position of the for loop of line 38 in versions
    dirs,               \* storage: directories made
    files,              \* storage: documents written, [path, doc, rev]
    calls,              \* collaborator calls of the current export, in order
    out,                \* lines printed by the current export (their kinds)
    result              \* what the last export_model call returned

config == <<stagesArg, stages, warnings, export_run>>
source == <<versions, faults>>
frame == <<output_dir, model_name, fs, model, manifest, exported_versions, idx>>
world == <<dirs, files>>
vars == <<config, source, remaining, pc, frame, world, calls, out, result>>

NoModel == [name |-> <<>>, latest_versions |-> <<>>]
NoResult == [kind |-> "none", ok |-> FALSE, name |-> <<>>]
Return(ok, name) == [kind |-> "return", ok |-> ok, name |-> name]
Raised(name) == [kind |-> "raise", ok |-> FALSE, name |-> name]

\* one collaborator call: the operation, the run it is about, the path it is given
Call(op, id, path) == [op |-> op, id |-> id, path |-> path]


(* ------------------------ construction (Init) ------------------------- *)
FilterWords == { <<"P","r","o","d","u","c","t","i","o","n">>,
                 <<"a","r","c","h","i","v","e","d">>,
                 <<"B","o","g","u","s">> }

SeqsUpTo(S, n) == UNION { [1..m -> S] : m \in 0..n }

StrArgs == { StrArg(<<>>),
             StrArg(<<"p","r","o","d","u","c","t","i","o","n">>),
             StrArg(<<"P","r","o","d","u","c","t","i","o","n",",",
                      "a","r","c","h","i","v","e","d">>) }

StagesArgs == {None} \cup StrArgs \cup { ListArg(l) : l \in SeqsUpTo(FilterWords, MaxFilter) }

\* lines 14-19, with the frame of a call not yet made
Constructed(args, flags, lists, fs_, n) ==
    /\ stagesArg \in args
    /\ stages = normalize_stages(stagesArg)
    /\ warnings = StageWarnings(stages)
    /\ export_run \in flags
    /\ versions \in lists
    /\ faults \in [1..Len(versions) -> fs_]
    /\ remaining = n
    /\ pc = "idle"
    /\ output_dir = <<>> /\ model_name = <<>>
    /\ fs = "none"
    /\ model = NoModel
    /\ manifest = <<>> /\ exported_versions = 0
    /\ idx = 1
    /\ dirs = {} /\ files = {}
    /\ calls = <<>> /\ out = <<>>
    /\ result = NoResult

\* the stage filters of the general specification
CoreArgs == { None,
              ListArg(<< <<"P","r","o","d","u","c","t","i","o","n">> >>),
              ListArg(<< <<"a","r","c","h","i","v","e","d">>,
                         <<"P","r","o","d","u","c","t","i","o","n">> >>),
              ListArg(<< <<"B","o","g","u","s">> >>) }

\* one export, every kind of per-version failure
Init == Constructed(CoreArgs, BOOLEAN, VersionLists(MaxVersions), Faults, 1)

\* one export, every stage filter up to MaxFilter entries
NormFaults == { NoFault, [step |-> "get_run", exc |-> OtherError] }
InitNorm == Constructed(StagesArgs, BOOLEAN, VersionLists(MaxVersions), NormFaults, 1)

\* a batch of MaxCalls exports on one exporter
BatchArgs == { None, ListArg(<< <<"P","r","o","d","u","c","t","i","o","n">> >>) }
BatchFaults == { NoFault,
                 [step |-> "get_run", exc |-> RunNotFound],
                 [step |-> "get_run", exc |-> OtherError],
                 [step |-> "get_experiment", exc |-> RestOther] }
InitBatch == Constructed(BatchArgs, BOOLEAN, VersionLists(MaxVersions), BatchFaults, MaxCalls)

(* ------------------------------ helpers ------------------------------- *)
\* _filesystem.get_filesystem: the handle is chosen by the path's scheme
get_filesystem(dir) == IF MatchAt(dir, DbfsScheme, 1) THEN "dbfs" ELSE "local"

\* mlflow_client.search_model_versions(f"name='{model_name}'")
search_model_versions(name) == IF name \in Registered THEN versions ELSE <<>>

\* times the document at path has been written so far
Revision(fl, path) == IF \E f \in fl : f.path = path
                      THEN (CHOOSE f \in fl : f.path = path).rev ELSE 0

\* (mutant) the versions of an existing document are kept and added to
write_json_file_merge(fl, path, doc) ==
    { f \in fl : f.path # path }
        \cup { [path |-> path, rev |-> Revision(fl, path) + 1,
                doc |-> IF Revision(fl, path) = 0 THEN doc
                        ELSE [doc EXCEPT !.latest_versions =
                                (CHOOSE f \in fl : f.path = path).doc.latest_versions \o @]] }

\* utils.write_json_file(fs, path, doc): the document at path is replaced
write_json_file(fl, path, doc) ==
    { f \in fl : f.path # path }
        \cup { [path |-> path, doc |-> doc, rev |-> Revision(fl, path) + 1] }

\* lines 51-54
Enriched(vr) ==
    [version |-> vr.version, current_stage |-> vr.current_stage, run_id |-> vr.run_id,
     run_artifact_uri |-> ArtifactUri(vr.run_id),
     experiment_name |-> ExperimentName(vr.run_id)]

\* line 44
ManifestEntry(vr) == [version |-> vr.version, stage |-> vr.current_stage, run_id |-> vr.run_id]

\* (mutant) line 46 inserts at the front
ManifestAfterPrepend(m, vr) == <<[version |-> vr.version, stage |-> vr.current_stage,
                                  run_id |-> vr.run_id]>> \o m

\* (mutant) line 46 dropped
ManifestAfterDropped(m, vr) == m

\* line 46: manifest.append(dct)
ManifestAfter(m, vr) == Append(m, ManifestEntry(vr))

\* (mutant) line 33 dropped
ResetLatestDropped(m) == m

\* line 33: model["registered_model"]["latest_versions"] = []
ResetLatest(m) == [m EXCEPT !.latest_versions = <<>>]

\* line 55: model["registered_model"]["latest_versions"].append(dct)
LatestAfter(lv, vr) == Append(lv, Enriched(vr))

\* (mutant) the handler of lines 25-27 reports success
PropagateAsSuccess(e) ==
    /\ pc' = "idle"
    /\ result' = Return(TRUE, model_name)
    /\ out' = Append(out, "ERROR")
    /\ idx' = idx

\* lines 25-27: an exception leaves _export_model
Propagate(e) ==
    /\ pc' = "idle"
    /\ result' = IF IsException(e) THEN Return(FALSE, model_name) ELSE Raised(model_name)
    /\ out' = IF IsException(e) THEN Append(out, "ERROR") ELSE out
    /\ idx' = idx

\* (mutant) a caught exception makes the loop take the same version again
LoopExceptRetry(e) ==
    IF IsRestException(e)
    THEN /\ out' = Append(out, IF MentionsMissingRun(e) THEN "WARNING" ELSE "TRACEBACK")
         /\ idx' = idx
         /\ pc' = "for_vr"
         /\ result' = result
    ELSE Propagate(e)

\* lines 57-62: an exception is raised inside the try of line 47
LoopExcept(e) ==
    IF IsRestException(e)
    THEN /\ out' = Append(out, IF MentionsMissingRun(e) THEN "WARNING" ELSE "TRACEBACK")
         /\ idx' = idx + 1
         /\ pc' = "for_vr"
         /\ result' = result
    ELSE Propagate(e)

Fails(step) == faults[idx].step = step


(* ------------------------------ actions ------------------------------- *)
\* (mutant) a call uses up the first entry of the exporter's stage filter
export_model_consuming(d, n) ==
    /\ pc = "idle" /\ remaining > 0
    /\ remaining' = remaining - 1
    /\ output_dir' = d /\ model_name' = n
    /\ fs' = "none" /\ model' = NoModel
    /\ manifest' = <<>> /\ exported_versions' = 0 /\ idx' = 1
    /\ calls' = <<>> /\ out' = <<>>
    /\ result' = NoResult
    /\ pc' = "get_filesystem"
    /\ stages' = IF stages = <<>> THEN stages ELSE Tail(stages)
    /\ UNCHANGED <<stagesArg, warnings, export_run, source, world>>

\* lines 21-23: the caller invokes export_model(output_dir, model_name)
export_model(d, n) ==
    /\ pc = "idle" /\ remaining > 0
    /\ remaining' = remaining - 1
    /\ output_dir' = d /\ model_name' = n
    /\ fs' = "none" /\ model' = NoModel
    /\ manifest' = <<>> /\ exported_versions' = 0 /\ idx' = 1
    /\ calls' = <<>> /\ out' = <<>>
    /\ result' = NoResult
    /\ pc' = "get_filesystem"
    /\ UNCHANGED <<config, source, world>>

\* (mutant) the directory is made as soon as the handle is resolved
L30_get_filesystem_mkdirs ==
    /\ pc = "get_filesystem"
    /\ \/ /\ fs' = get_filesystem(output_dir)
          /\ calls' = calls \o << Call("get_filesystem", <<>>, output_dir),
                                   Call("mkdirs", <<>>, output_dir) >>
          /\ dirs' = dirs \cup {output_dir}
          /\ pc' = "get" /\ UNCHANGED <<idx, out, result>>
       \/ /\ calls' = Append(calls, Call("get_filesystem", <<>>, output_dir))
          /\ Propagate(OtherError) /\ UNCHANGED <<fs, dirs>>
    /\ UNCHANGED <<config, source, remaining, output_dir, model_name, model,
                   manifest, exported_versions, files>>

\* line 30
L30_get_filesystem ==
    /\ pc = "get_filesystem"
    /\ calls' = Append(calls, Call("get_filesystem", <<>>, output_dir))
    /\ \/ /\ fs' = get_filesystem(output_dir)
          /\ pc' = "get" /\ UNCHANGED <<idx, out, result>>
       \/ /\ Propagate(OtherError) /\ UNCHANGED fs
    /\ UNCHANGED <<config, source, remaining, output_dir, model_name, model,
                   manifest, exported_versions, world>>

\* line 31
L31_get ==
    /\ pc = "get"
    /\ calls' = Append(calls, Call("get", model_name, <<>>))
    /\ \/ /\ model_name \in Registered
          /\ model' = [name |-> model_name,
                       latest_versions |-> RawLatestVersions(search_model_versions(model_name))]
          /\ pc' = "mkdirs" /\ UNCHANGED <<idx, out, result>>
       \/ /\ Propagate(IF model_name \in Registered THEN OtherError ELSE RestOther)
          /\ UNCHANGED model
    /\ UNCHANGED <<config, source, remaining, output_dir, model_name, fs,
                   manifest, exported_versions, world>>

\* line 32
L32_mkdirs ==
    /\ pc = "mkdirs"
    /\ calls' = Append(calls, Call("mkdirs", <<>>, output_dir))
    /\ \/ /\ dirs' = dirs \cup {output_dir}
          /\ pc' = "search" /\ UNCHANGED <<idx, out, result>>
       \/ /\ Propagate(OtherError) /\ UNCHANGED dirs
    /\ UNCHANGED <<config, source, remaining, output_dir, model_name, fs, model,
                   manifest, exported_versions, files>>

\* lines 33-37
L34_search_model_versions ==
    /\ pc = "search"
    /\ model' = ResetLatest(model)
    /\ calls' = Append(calls, Call("search_model_versions", model_name, <<>>))
    /\ \/ /\ out' = Append(out, "Found")
          /\ manifest' = <<>> /\ exported_versions' = 0
          /\ idx' = 1 /\ pc' = "for_vr" /\ UNCHANGED result
       \/ /\ Propagate(OtherError) /\ UNCHANGED <<manifest, exported_versions>>
    /\ UNCHANGED <<config, source, remaining, output_dir, model_name, fs, world>>

\* lines 38-46 and 48: the next version is taken, filtered and recorded;
\* line 63 once the versions are exhausted
L38_for_vr ==
    /\ pc = "for_vr"
    /\ LET vs == search_model_versions(model_name) IN
       IF idx > Len(vs)
       THEN /\ out' = Append(out, "Exported")
            /\ pc' = "write" /\ UNCHANGED <<idx, manifest>>
       ELSE IF Skipped(stages, vs[idx])
       THEN /\ idx' = idx + 1 /\ UNCHANGED <<pc, manifest, out>>
       ELSE /\ manifest' = ManifestAfter(manifest, vs[idx])
            /\ out' = Append(out, "Exporting")
            /\ pc' = IF export_run THEN "export_run" ELSE "get_run"
            /\ UNCHANGED idx
    /\ UNCHANGED <<config, source, remaining, output_dir, model_name, fs, model,
                   exported_versions, world, calls, result>>

\* line 49: self.run_exporter.export_run(run_id, opath)
L49_export_run ==
    /\ pc = "export_run"
    /\ LET vr == search_model_versions(model_name)[idx] IN
       calls' = Append(calls, Call("export_run", vr.run_id, RunPath(output_dir, vr.run_id)))
    /\ IF Fails("export_run")
       THEN LoopExcept(faults[idx].exc)
       ELSE pc' = "get_run" /\ UNCHANGED <<idx, out, result>>
    /\ UNCHANGED <<config, source, remaining, output_dir, model_name, fs, model,
                   manifest, exported_versions, world>>

\* line 50: self.mlflow_client.get_run(run_id)
L50_get_run ==
    /\ pc = "get_run"
    /\ LET vr == search_model_versions(model_name)[idx] IN
       calls' = Append(calls, Call("get_run", vr.run_id, <<>>))
    /\ IF Fails("get_run")
       THEN LoopExcept(faults[idx].exc)
       ELSE pc' = "get_experiment" /\ UNCHANGED <<idx, out, result>>
    /\ UNCHANGED <<config, source, remaining, output_dir, model_name, fs, model,
                   manifest, exported_versions, world>>

\* lines 51-56: mlflow.get_experiment, then the enriched version is appended
L53_get_experiment ==
    /\ pc = "get_experiment"
    /\ LET vr == search_model_versions(model_name)[idx] IN
       /\ calls' = Append(calls, Call("get_experiment", vr.run_id, <<>>))
       /\ IF Fails("get_experiment")
          THEN LoopExcept(faults[idx].exc) /\ UNCHANGED <<model, exported_versions>>
          ELSE /\ model' = [model EXCEPT !.latest_versions = LatestAfter(@, vr)]
               /\ exported_versions' = exported_versions + 1
               /\ idx' = idx + 1 /\ pc' = "for_vr"
               /\ UNCHANGED <<out, result>>
    /\ UNCHANGED <<config, source, remaining, output_dir, model_name, fs,
                   manifest, world>>

\* lines 64-66 and 24: model.json is written and export_model returns
L65_write_json_file ==
    /\ pc = "write"
    /\ calls' = Append(calls, Call("write_json_file", <<>>, ModelPath(output_dir)))
    /\ \/ /\ files' = write_json_file(files, ModelPath(output_dir), model)
          /\ result' = Return(TRUE, model_name)
          /\ pc' = "idle" /\ UNCHANGED <<idx, out>>
       \/ /\ Propagate(OtherError) /\ UNCHANGED files
    /\ UNCHANGED <<config, source, remaining, output_dir, model_name, fs, model,
                   manifest, exported_versions, dirs>>

Next ==
    \/ \E d \in OutputDirs, n \in ModelNames : export_model(d, n)
    \/ L30_get_filesystem
    \/ L31_get
    \/ L32_mkdirs
    \/ L34_search_model_versions
    \/ L38_for_vr
    \/ L49_export_run
    \/ L50_get_run
    \/ L53_get_experiment
    \/ L65_write_json_file

Spec == Init /\ [][Next]_vars
SpecNorm == InitNorm /\ [][Next]_vars
SpecBatch == InitBatch /\ [][Next]_vars


(* ------------------------- claims: vocabulary ------------------------- *)
Last(q) == q[Len(q)]
StageSet == { stages[k] : k \in 1..Len(stages) }

\* the versions the stage filter lets through, as the specification defines them
Passing == { k \in 1..Len(versions) :
               StageSet = {} \/ lower(versions[k].current_stage) \in StageSet }

ManifestVersions == { manifest[j].version : j \in 1..Len(manifest) }
LatestVersionNos == { model.latest_versions[j].version : j \in 1..Len(model.latest_versions) }

\* the for loop of line 38 has been entered by the current export
LoopEntered == InSeq("Found", out)
\* ... and has been left, by running to its end or by an exception
LoopLeft == pc = "write" \/ (pc = "idle" /\ LoopEntered)

\* the steps the loop body executes for a version
ActiveSteps == IF export_run THEN Steps ELSE Steps \ {"export_run"}
\* version k fails in its run export or one of its lookups
FailsInLoop(k) == faults[k].step \in ActiveSteps
\* ... with the not-found condition, in the run export or the run lookup
RunMissing(k) == /\ FailsInLoop(k) /\ faults[k].exc = RunNotFound
                 /\ faults[k].step \in {"export_run", "get_run"}


(* ------------------------------ claims -------------------------------- *)

\* C1: export_model never raises to its caller; whatever the collaborators
\* do it returns (True, model_name) when _export_model ran to its end and
\* (False, model_name) when an exception left it.
C1_NeverRaises ==
    /\ result.kind \in {"none", "return"}
    /\ (pc = "idle" /\ Len(calls) > 0) =>
          /\ result.kind = "return"
          /\ result.name = model_name
          /\ result.ok <=> Last(out) = "Exported"
          /\ ~ result.ok <=> Last(out) = "ERROR"

\* an exception raised for a version left the loop and was turned into (False, name)
C1_Witness ==
    /\ pc = "idle" /\ result = Return(FALSE, model_name)
    /\ Len(manifest) > 0 /\ Last(calls).op = "get_run"

\* C2 (as claimed): once the loop is left, the versions with a manifest entry
\* are exactly the versions whose lower-cased stage is in the filter, or all
\* of them when the filter is empty.
C2_ManifestIsFilteredSet ==
    LoopLeft => ManifestVersions = Passing

\* C3 (as claimed): once the loop is left, the manifest has one entry per
\* version passing the stage filter, whatever failed for those versions.
C3_ManifestCountsPassing ==
    LoopLeft => Len(manifest) = Cardinality(Passing)

\* C4: in the loop the enriched list is never longer than the manifest, and
\* when the loop is left the two have the same length iff no attempted
\* version failed in its run export or lookups.
C4_EnrichedWithinManifest ==
    /\ LoopEntered => Len(model.latest_versions) <= Len(manifest)
    /\ LoopLeft => ( Len(model.latest_versions) = Len(manifest)
                       <=> ~ \E k \in ManifestVersions : FailsInLoop(k) )

\* the loop ran to its end with one version enriched and one that failed
C4_Witness ==
    /\ pc = "write"
    /\ Len(model.latest_versions) = 1 /\ Len(manifest) = 2

\* C5: when exactly one version fails, with the not-found condition in its run
\* export or run lookup, a warning is printed, the manifest has its entry, the
\* enriched list omits it, the counter is the number attempted minus one, the
\* loop goes on to every later version, and the export reaches the write of
\* model.json and returns True when that write succeeds.
OneRunMissing(k) ==
    /\ k \in Passing /\ RunMissing(k)
    /\ \A j \in Passing \ {k} : ~ FailsInLoop(j)

C5_MissingRunSkipped ==
    \A k \in 1..Len(versions) :
        (LoopLeft /\ OneRunMissing(k)) =>
            /\ k \in ManifestVersions
            /\ k \notin LatestVersionNos
            /\ InSeq("WARNING", out)
            /\ ManifestVersions = Passing
            /\ exported_versions = Len(manifest) - 1
            /\ LatestVersionNos = Passing \ {k}
            /\ pc = "idle" =>
                  /\ Last(calls).op = "write_json_file"
                  /\ result.ok <=> Last(out) = "Exported"
                  /\ result.ok =>
                        \E f \in files : /\ f.path = ModelPath(output_dir)
                                         /\ f.doc = model

\* version 1's run is missing, version 2 was exported after it, model.json written
C5_Witness ==
    /\ pc = "idle" /\ result = Return(TRUE, model_name)
    /\ Len(versions) = 2 /\ OneRunMissing(1)
    /\ ManifestVersions = {1, 2} /\ LatestVersionNos = {2}

\* C6 (as claimed): a failure of any other kind for one version does not end
\* the export: the loop is only left by running to its end, so the export
\* goes on to write model.json.
C6_OtherFailureContinues ==
    (pc = "idle" /\ LoopEntered) => Last(calls).op = "write_json_file"

\* C7 (as claimed): with no filter, an empty string or an empty collection as
\* the stages argument, the normalized filter is empty and a loop that runs
\* to its end has attempted every version.
C7_EmptyFilterExportsAll ==
    (pc = "write" /\ stagesArg \in {None, StrArg(<<>>), ListArg(<<>>)}) =>
        /\ stages = <<>>
        /\ ManifestVersions = 1..Len(versions)

\* C8: for a list of stage strings normalize_stages returns the entries in
\* order, each lower-cased and otherwise unchanged; an entry outside the
\* canonical stages is warned about and kept, so the count is unchanged.
SameButCase(a, b) ==
    /\ Len(a) = Len(b)
    /\ \A j \in 1..Len(a) :
          /\ ~ \E n \in 1..26 : Upper[n] = b[j]
          /\ a[j] = b[j] \/ \E n \in 1..26 : Upper[n] = a[j] /\ Lower[n] = b[j]

C8_NormalizeKeepsOrder ==
    stagesArg.t = "list" =>
        /\ Len(stages) = Len(stagesArg.v)
        /\ \A k \in 1..Len(stages) : SameButCase(stagesArg.v[k], stages[k])
        /\ \A k \in 1..Len(stages) :
              stages[k] \notin CANONICAL_MAPPING <=> InSeq(stages[k], warnings)
        /\ Len(warnings) = Cardinality({ k \in 1..Len(stages) :
                                           stages[k] \notin CANONICAL_MAPPING })

\* an unrecognized stage followed by a recognized one in capitals
C8_Witness ==
    /\ stagesArg = ListArg(<< <<"B","o","g","u","s">>,
                              <<"P","r","o","d","u","c","t","i","o","n">> >>)
    /\ stages = << <<"b","o","g","u","s">>, sProduction >>
    /\ warnings = << <<"b","o","g","u","s">> >>

\* C9: with run export disabled, an export that writes model.json over the
\* one a previous export wrote writes the same document.
C9_RewriteSameDocument ==
    [][ (~ export_run /\ pc = "write" /\ result'.kind = "return" /\ result'.ok) =>
            /\ \A f \in files : f.path = ModelPath(output_dir) => f.doc = model
            /\ \E f \in files' : f.path = ModelPath(output_dir) /\ f.doc = model ]_vars

\* model.json has been written twice, with an enriched version in it
C9_Witness ==
    /\ ~ export_run /\ pc = "idle"
    /\ \E f \in files : f.rev = 2 /\ Len(f.doc.latest_versions) > 0

\* C10 (as claimed): the Run Exporter is given join(output_dir, run_id), with
\* a leading "dbfs:" replaced by "/dbfs" and nothing else changed; model.json
\* is written at join(output_dir, "model.json").
ClaimedRunPath(dir, run_id) ==
    IF MatchAt(dir, DbfsScheme, 1)
    THEN DbfsMount \o SubSeq(join(dir, run_id), Len(DbfsScheme) + 1, Len(join(dir, run_id)))
    ELSE join(dir, run_id)

C10_OnlyTheSchemeIsRewritten ==
    \A j \in 1..Len(calls) :
        /\ calls[j].op = "export_run" => calls[j].path = ClaimedRunPath(output_dir, calls[j].id)
        /\ calls[j].op = "write_json_file" => calls[j].path = join(output_dir, ModelJson)


\* Scenario A: versions [{1, "Production", run a}, {2, "Archived", run b}],
\* filter "production", run a exported and looked up without failure
ScenarioA ==
    /\ stagesArg = StrArg(<<"p","r","o","d","u","c","t","i","o","n">>)
    /\ Len(versions) = 2
    /\ versions[1].current_stage = <<"P","r","o","d","u","c","t","i","o","n">>
    /\ versions[2].current_stage = <<"A","r","c","h","i","v","e","d">>
    /\ faults[1] = NoFault

ScenarioAOutcome(stage) ==
    (ScenarioA /\ pc = "idle" /\ result.kind = "return" /\ result.ok) =>
        /\ manifest = << [version |-> 1, stage |-> stage, run_id |-> cA] >>
        /\ \A j \in 1..Len(calls) : calls[j].id \in {cA, cB} => calls[j].id = cA
        /\ \E f \in files :
              /\ f.path = ModelPath(output_dir)
              /\ f.doc.latest_versions =
                    << [version |-> 1,
                        current_stage |-> <<"P","r","o","d","u","c","t","i","o","n">>,
                        run_id |-> cA,
                        run_artifact_uri |-> ArtifactUri(cA),
                        experiment_name |-> ExperimentName(cA)] >>

\* C11 (as claimed): in scenario A only version 1 is attempted, the manifest is
\* [{version 1, stage "production", run_id a}] and model.json has one enriched
\* entry, for version 1.
C11_ScenarioA_AsClaimed == ScenarioAOutcome(sProduction)

\* C11 (amended): as claimed, but the manifest entry carries the stage as the
\* registry returned it, "Production".
C11_ScenarioA == ScenarioAOutcome(<<"P","r","o","d","u","c","t","i","o","n">>)

\* scenario A has been exported and export_model returned True
C11_Witness ==
    /\ ScenarioA /\ pc = "idle" /\ result = Return(TRUE, model_name)
    /\ Len(manifest) = 1 /\ export_run


\* the versions that pass the filter and fail in none of their steps, in source order
ExportedInOrder ==
    SelectSeq(versions, LAMBDA v : v.version \in Passing /\ ~ FailsInLoop(v.version))

\* what model.json lists for them
ExpectedLatest ==
    [ j \in 1..Len(ExportedInOrder) |->
        [version |-> ExportedInOrder[j].version,
         current_stage |-> ExportedInOrder[j].current_stage,
         run_id |-> RunIds[ExportedInOrder[j].version],
         run_artifact_uri |-> <<"u", ":">> \o RunIds[ExportedInOrder[j].version],
         experiment_name |-> <<"e", ":">> \o RunIds[ExportedInOrder[j].version]] ]

\* C12: latest_versions of a written model.json is exactly the enriched
\* descriptors of the versions that passed the filter and whose run export
\* (when enabled), run lookup and experiment lookup succeeded, in source
\* order: no entry of the registry's own list survives, no failed version appears.
C12_WrittenVersionsAreTheExported ==
    \A f \in files :
        /\ f.doc.latest_versions = ExpectedLatest
        /\ f.doc.name = model_name

\* model.json was written for two versions, one of which failed, while the
\* registry's descriptor came with a version list of its own
C12_Witness ==
    /\ pc = "idle" /\ result = Return(TRUE, model_name)
    /\ Len(manifest) = 2
    /\ RawLatestVersions(versions) # <<>>
    /\ \E f \in files : Len(f.doc.latest_versions) = 1


Ops(q) == { q[j].op : j \in 1..Len(q) }

\* C13: a failure outside the per-version loop fails the whole export with
\* (False, model_name): resolving or making the directory, fetching the
\* model (always, for an unknown name), listing the versions, or the final
\* write; before the loop no Run Exporter call is made and nothing is written.
C13_OuterFailureFailsExport ==
    (pc = "idle" /\ Len(calls) > 0) =>
        /\ Last(calls).op \in {"get_filesystem", "get", "mkdirs", "search_model_versions"} =>
              /\ result = Return(FALSE, model_name)
              /\ "export_run" \notin Ops(calls)
              /\ "write_json_file" \notin Ops(calls)
              /\ files = {}
        /\ (Last(calls).op = "write_json_file" /\ files = {}) =>
              result = Return(FALSE, model_name)
        /\ model_name \notin Registered =>
              /\ Last(calls).op \in {"get_filesystem", "get"}
              /\ result = Return(FALSE, model_name)

\* the listing of the versions failed after the directory was made
C13_Witness ==
    /\ pc = "idle" /\ Len(calls) > 0
    /\ Last(calls).op = "search_model_versions"
    /\ result = Return(FALSE, model_name)
    /\ output_dir \in dirs


\* the calls made for single versions, in the order they were made
RunCalls == SelectSeq(calls, LAMBDA c : c.op \in Steps)
VersionOfRun(id) == CHOOSE k \in 1..Len(RunIds) : RunIds[k] = id
StepRank(op) == CASE op = "export_run" -> 1 [] op = "get_run" -> 2 [] OTHER -> 3

\* q lists versions of the source list, in the source's order
SubsequenceOfSource(q, stageOf(_)) ==
    /\ \A i, j \in 1..Len(q) : i < j => q[i].version < q[j].version
    /\ \A i \in 1..Len(q) :
          /\ q[i].version \in 1..Len(versions)
          /\ stageOf(q[i]) = versions[q[i].version].current_stage
          /\ q[i].run_id = versions[q[i].version].run_id

\* C14: versions are processed one at a time in the order of the source: every
\* call for a version is made before any call for a later one, a version's
\* calls go run export, run lookup, experiment lookup, and the manifest and
\* latest_versions are subsequences of the source list in its order.
C14_OneVersionAtATime ==
    /\ \A i, j \in 1..Len(RunCalls) : i < j =>
          \/ VersionOfRun(RunCalls[i].id) < VersionOfRun(RunCalls[j].id)
          \/ /\ VersionOfRun(RunCalls[i].id) = VersionOfRun(RunCalls[j].id)
             /\ StepRank(RunCalls[i].op) < StepRank(RunCalls[j].op)
    /\ SubsequenceOfSource(manifest, LAMBDA e : e.stage)
    /\ SubsequenceOfSource(model.latest_versions, LAMBDA e : e.current_stage)

\* two versions were exported and enriched, with all three calls made for each
C14_Witness ==
    /\ pc = "write"
    /\ Len(manifest) = 2 /\ Len(model.latest_versions) = 2
    /\ Len(RunCalls) = 6


\* call op1 is made before every call op2 of the current export
Precedes(op1, op2) ==
    \A j \in 1..Len(calls) : calls[j].op = op2 => \E i \in 1..(j - 1) : calls[i].op = op1

\* C15 (as claimed): the output directory is made before the registered model
\* is fetched, so it exists when the fetch fails.
C15_DirectoryBeforeFetch ==
    /\ Precedes("mkdirs", "get")
    /\ "get" \in Ops(calls) => output_dir \in dirs

\* C15 (amended): the storage handle is resolved, then the registered model is
\* fetched, and only then is the directory made; when the fetch fails, as for
\* an unknown model name, the directory has not been made.
C15_FetchBeforeDirectory ==
    /\ Precedes("get_filesystem", "get")
    /\ Precedes("get", "mkdirs")
    /\ output_dir \in dirs => model.name = model_name
    /\ (pc = "idle" /\ Len(calls) > 0 /\ Last(calls).op = "get") => dirs = {}

\* the fetch failed for an unknown model name and no directory was made
C15_Witness ==
    /\ pc = "idle" /\ model_name = mU
    /\ Len(calls) = 2 /\ Last(calls).op = "get"
    /\ result = Return(FALSE, mU)
    /\ dirs = {}


\* the versions the Run Exporter has been invoked for
RunExported == { VersionOfRun(calls[j].id) : j \in { i \in 1..Len(calls) : calls[i].op = "export_run" } }

\* C16 (as claimed): with run export disabled the Run Exporter is never
\* invoked, yet every version passing the filter gets a manifest entry and,
\* when its lookups succeed, an enriched entry; with run export enabled the
\* Run Exporter is invoked for exactly the versions passing the filter, each
\* time before that version's run lookup.
C16_RunExportFollowsFlag ==
    /\ ~ export_run => RunExported = {}
    /\ LoopLeft =>
          /\ ManifestVersions = Passing
          /\ \A k \in Passing : ~ FailsInLoop(k) => k \in LatestVersionNos
          /\ export_run => RunExported = Passing
    /\ export_run =>
          \A j \in 1..Len(calls) : calls[j].op = "get_run" =>
              \E i \in 1..(j - 1) : calls[i].op = "export_run" /\ calls[i].id = calls[j].id


\* C17: nothing is retried: within one export the Run Exporter, the run lookup
\* and the experiment lookup are each invoked at most once per version,
\* whatever they did, and the registry fetch, the version listing and the
\* write of model.json at most once.
C17_NoRetry ==
    \A i, j \in 1..Len(calls) :
        (i < j /\ calls[i].op = calls[j].op) =>
            /\ calls[i].op \in Steps
            /\ calls[i].id # calls[j].id

\* a lookup failed for version 1 and the export went on to version 2 and the write
C17_Witness ==
    /\ pc = "idle" /\ result = Return(TRUE, model_name)
    /\ InSeq("TRACEBACK", out)
    /\ Len(manifest) = 2 /\ LatestVersionNos = {2}


\* the manifest of an export of the registered model that ran to its end,
\* from the exporter's construction arguments and the source alone
FilterAsConstructed ==
    IF stagesArg.t = "None" THEN {}
    ELSE IF stagesArg.t = "list" THEN { lower(stagesArg.v[k]) : k \in 1..Len(stagesArg.v) }
    ELSE { lower(w) : w \in { split(stagesArg.v)[k] : k \in 1..Len(split(stagesArg.v)) } }

AttemptedInOrder ==
    SelectSeq(versions, LAMBDA v :
        FilterAsConstructed = {} \/ lower(v.current_stage) \in FilterAsConstructed)

ExpectedManifest ==
    [ j \in 1..Len(AttemptedInOrder) |->
        [version |-> AttemptedInOrder[j].version,
         stage |-> AttemptedInOrder[j].current_stage,
         run_id |-> AttemptedInOrder[j].run_id] ]

\* C18: exports on one exporter are independent: no step of an export changes
\* the exporter's stage filter or run-export flag, and an export that returns
\* True leaves the manifest and the model.json that the construction
\* arguments and the source determine, whatever exports were made before it.
C18_ExportsIndependent ==
    /\ [][ stagesArg' = stagesArg /\ stages' = stages /\ export_run' = export_run ]_vars
    /\ []( (pc = "idle" /\ result.kind = "return" /\ result.ok) =>
              /\ manifest = ExpectedManifest
              /\ exported_versions = Len(ExpectedLatest)
              /\ \E f \in files :
                    /\ f.path = ModelPath(output_dir)
                    /\ f.doc = [name |-> model_name, latest_versions |-> ExpectedLatest] )

\* a second export returned True after an earlier one had used another directory
C18_Witness ==
    /\ pc = "idle" /\ remaining <= MaxCalls - 2
    /\ result = Return(TRUE, model_name)
    /\ Cardinality(dirs) = 2
    /\ Len(manifest) = 1 /\ Len(versions) = 2 /\ stages # <<>>

====
